---- MODULE Spec2Model ----
(***************************************************************************)
(* NewsHub (Scrool2/kursovaya): RSS ingestion (app/rss_parser.py and its   *)
(* older copy app/parser/rss_parser.py), the article / preference /        *)
(* read-history store (app/models.py, app/crud.py), registration and the   *)
(* preference and mark-as-read requests (app/main.py), the keyword         *)
(* classifier, the personalised feed (crud.get_personalized_feed), and the *)
(* application's lifespan with its source and parser endpoints.            *)
(*                                                                         *)
(* Texts are kept as [id, len]: the identity of the fetched string and the *)
(* number of characters of it that are present, so that s[:n] is a real    *)
(* truncation.  A timestamp is a natural number, 0 standing for None/NULL. *)
(***************************************************************************)
EXTENDS Integers, Sequences, FiniteSets, TLC

\* ------------------------------------------------------------------ bounds
MaxFeedLen == 2
MaxArticleId == 3
MaxLimit == 4
MaxTextLen == 2
MaxUsers == 1

\* ------------------------------------------------------- program constants
FeedLimit == 10
FeedLimitOld == 5
TitleLimit == 500
SummaryLimit == 1000
ContentLimit == 5000
UrlLimit == 500

\* ------------------------------------------------------------------- texts
Txt(id, len) == [id |-> id, len |-> len]
EmptyTxt == Txt("", 0)
NoneTxt == Txt("None", 0)

\* s[:n]
Slice(t, n) == IF t.len <= n THEN t ELSE [t EXCEPT !.len = n]

\* truthiness of a str: the empty string is falsy
Truthy(t) == t.len > 0

Max(S) == CHOOSE x \in S : \A y \in S : y <= x

\* -------------------------------------------------------------- categories
\* models.ArticleCategory, in definition order
ArticleCategory ==
    <<"POLITICS", "TECHNOLOGY", "SPORTS", "BUSINESS",
      "ENTERTAINMENT", "SCIENCE", "HEALTH", "GENERAL">>

\* the keyword table of _categorize_article (transliterated)
category_keywords ==
    [c \in {ArticleCategory[i] : i \in 1..7} |->
        CASE c = "POLITICS" -> {"vybory", "prezident", "pravitelstvo", "politika", "putin", "deputat"}
          [] c = "TECHNOLOGY" -> {"tehnologiya", "iskusstvennyi intellekt", "startap", "gadzhet",
                                  "programmirovanie", "it", "smartfon"}
          [] c = "SPORTS" -> {"futbol", "hokkei", "sorevnovanie", "olimpiada", "sportsmen", "chempionat"}
          [] c = "BUSINESS" -> {"biznes", "ekonomika", "rynok", "akcii", "kompaniya", "finansy"}
          [] c = "ENTERTAINMENT" -> {"kino", "serial", "muzyka", "znamenitost", "koncert"}
          [] c = "SCIENCE" -> {"nauka", "issledovanie", "otkrytie", "uchenyi", "kosmos"}
          [] c = "HEALTH" -> {"zdorove", "medicina", "vrach", "lekarstvo", "bolezn"}]

\* scores[category]: how many keywords of the category occur in text_content;
\* text_content is given by the set kw of keywords that occur in it
Scores(kw) ==
    [c \in {ArticleCategory[i] : i \in 1..8} |->
        IF c \in DOMAIN category_keywords
        THEN Cardinality(category_keywords[c] \cap kw)
        ELSE 0]

\* A mutant of _categorize_article: of the keys of maximal score the last one.
_categorize_article_last(kw) ==
    LET scores == Scores(kw)
        best == Max({scores[ArticleCategory[i]] : i \in 1..8})
        last == CHOOSE i \in 1..8 :
                    /\ scores[ArticleCategory[i]] = best
                    /\ \A j \in (i + 1)..8 : scores[ArticleCategory[j]] # best
    IN IF best > 0 THEN ArticleCategory[last] ELSE "GENERAL"

\* max(scores, key=scores.get): the first key, in insertion order, of maximal score
_categorize_article(kw) ==
    LET scores == Scores(kw)
        best == Max({scores[ArticleCategory[i]] : i \in 1..8})
        first == CHOOSE i \in 1..8 :
                    /\ scores[ArticleCategory[i]] = best
                    /\ \A j \in 1..(i - 1) : scores[ArticleCategory[j]] # best
    IN IF best > 0 THEN ArticleCategory[first] ELSE "GENERAL"

\* ------------------------------------------------------------------ texts
\* A title or summary, for the keyword search, is a sequence of words; a word
\* is [w, cap]: its letters in lower case, and whether it is written with a
\* capital letter somewhere.  The words are separated by blanks.
Word(w, cap) == [w |-> w, cap |-> cap]

Words ==
    {Word("it", FALSE), Word("it", TRUE), Word("twitter", FALSE), Word("futbol", TRUE),
     Word("iskusstvennyi", FALSE), Word("intellekt", FALSE), Word("vybory", FALSE)}

Texts == UNION {[1..k -> Words] : k \in 0..MaxTextLen}

AllKeywords == UNION {category_keywords[c] : c \in DOMAIN category_keywords}

\* str.lower()
Lower(text) == [i \in 1..Len(text) |-> Word(text[i].w, FALSE)]

\* A mutant of text_content: the text is not lowercased.
text_content_cased(title, summary) == title \o summary

\* text_content = (title + " " + summary).lower()
text_content(title, summary) == Lower(title \o summary)

\* the keywords that are substrings of the letters w
Inside(w) == (IF w \in AllKeywords THEN {w} ELSE {}) \cup (IF w = "twitter" THEN {"it"} ELSE {})

\* keyword in text_content: a substring test on the text as written; the one
\* keyword of two words needs them next to each other
KeywordIn(keyword, text) ==
    IF keyword = "iskusstvennyi intellekt"
    THEN \E i \in 1..(Len(text) - 1) :
            /\ text[i] = Word("iskusstvennyi", FALSE)
            /\ text[i + 1] = Word("intellekt", FALSE)
    ELSE \E i \in 1..Len(text) : ~text[i].cap /\ keyword \in Inside(text[i].w)

\* _categorize_article(title, summary) on texts
CategorizeText(title, summary) ==
    LET text == text_content(title, summary)
    IN _categorize_article({k \in AllKeywords : KeywordIn(k, text)})

\* no call of _categorize_article has returned
NotClassified == [called |-> FALSE, title |-> <<>>, summary |-> <<>>, category |-> "GENERAL"]

\* ------------------------------------------------------------ feed entries
\* What feedparser yields for an entry: an absent attribute is the empty text
\* (hasattr is false and the code substitutes ''), published 0 is "no date",
\* kw the keywords that occur in (title + " " + summary).lower().
RawEntry(title, summary, description, link, published, kw) ==
    [title |-> title, summary |-> summary, description |-> description,
     link |-> link, published_parsed |-> published, kw |-> kw]

RawEntries == {
    RawEntry(Txt("t1", 40), Txt("s1", 100), Txt("d1", 300), Txt("a", 20), 2, {"it"}),
    RawEntry(Txt("t2", 600), Txt("s2", 1200), Txt("d2", 6000), Txt("b", 600), 1, {"futbol"}),
    RawEntry(Txt("t3", 40), EmptyTxt, Txt("d3", 300), Txt("d", 25), 3, {"it", "futbol", "hokkei"}),
    RawEntry(Txt("t4", 40), Txt("s4", 100), EmptyTxt, EmptyTxt, 0, {})
}

SeqsUpTo(S, n) == UNION {[1..k -> S] : k \in 0..n}

Feeds == SeqsUpTo(RawEntries, MaxFeedLen)

\* What feedparser still gets out of a document that is not well-formed, or
\* out of the body of a non-success response: nothing, or some entries (it is a
\* liberal parser: it sets bozo and keeps what it could read).
SalvagedFeeds == SeqsUpTo(RawEntries, 1)

\* What session.get + response.text() + feedparser.parse give for a URL: the
\* kind of outcome and the entries feedparser finds in the body, if one came.
Responses ==
    [kind : {"ok"}, entries : Feeds]
        \cup [kind : {"network_error", "timeout"}, entries : {<<>>}]
        \cup [kind : {"http_error", "malformed"}, entries : SalvagedFeeds]

\* the responses of two feeds that carry the same entries
SharedEntries == {e \in RawEntries : e.link.id \in {"a", "b", "d"}}

SharedResponses ==
    [kind : {"ok"}, entries : SeqsUpTo(SharedEntries, MaxFeedLen)]
        \cup [kind : {"network_error"}, entries : {<<>>}]

Take(s, n) == SubSeq(s, 1, IF Len(s) < n THEN Len(s) ELSE n)

\* the article_data dict parse_feed builds for one entry
ArticleData(entry) ==
    [title |-> entry.title,
     summary |-> entry.summary,
     content |-> entry.description,
     source_url |-> entry.link,
     published_at |-> entry.published_parsed,
     category |-> _categorize_article(entry.kw)]

\* the entries parse_feed gets to see: session.get raises on a network error
\* or a timeout, raise_for_status (app/rss_parser.py only) on a non-success
\* status; feedparser.parse itself does not raise
Delivered(variant, response) ==
    /\ response.kind \notin {"network_error", "timeout"}
    /\ ~(response.kind = "http_error" /\ variant = "batch")

\* A mutant of parse_feed: no try/except, so a failed fetch raises into the caller.
parse_feed_no_catch(variant, response) ==
    LET limit == IF variant = "batch" THEN FeedLimit ELSE FeedLimitOld
        entries == IF Delivered(variant, response) THEN Take(response.entries, limit) ELSE <<>>
    IN [raised |-> ~Delivered(variant, response),
        articles |-> [i \in 1..Len(entries) |-> ArticleData(entries[i])]]

\* parse_feed: [raised, articles].  app/rss_parser.py reads entries[:10],
\* app/parser/rss_parser.py entries[:5].  Every exception is caught and turned
\* into [].
parse_feed(variant, response) ==
    LET limit == IF variant = "batch" THEN FeedLimit ELSE FeedLimitOld
        entries == IF Delivered(variant, response) THEN Take(response.entries, limit) ELSE <<>>
    IN [raised |-> FALSE,
        articles |-> [i \in 1..Len(entries) |-> ArticleData(entries[i])]]

\* ------------------------------------------------------------------- state
Workers == {"w1", "w2"}
Users == {1}

VARIABLES
    articles,           \* the articles table: a set of rows
    proc,               \* per ingest worker: the frame of parse_and_save_articles
    user_preferences,   \* the user_preferences table: rows [user_id, category, weight]
    read_history,       \* the read_history table: rows [user_id, article_id]
    feed,               \* what the last call of get_personalized_feed returned
    reader,             \* per mark-as-read request: the frame of create_read_history
    classified,         \* the last call of _categorize_article: arguments and result
    users,              \* the users table: the ids of its rows
    signup,             \* the frame of the create_user call of a registration
    updater,            \* the frame of an update_user_preference call
    news_sources,       \* the news_sources table: rows [id, is_active]
    lifecycle,          \* where the application is in its lifespan
    sync                \* the last POST /api/parser/sync/{source_id}: id and status

vars == <<articles, proc, user_preferences, read_history, feed, reader, classified,
          users, signup, updater, news_sources, lifecycle, sync>>

\* the registration and preference requests, which only they themselves move
accounts == <<users, signup, updater>>

\* the sources and the application's lifespan, which the requests above never touch
service == <<news_sources, lifecycle, sync>>

\* no POST /api/parser/sync/{source_id} was answered yet; background_tasks is
\* what the handler added to the BackgroundTasks object of the request
NoSync == [called |-> FALSE, source_id |-> 0, status |-> 0, background_tasks |-> {}]

\* the tables and the response the ingestion never touches
ranking == <<user_preferences, read_history, feed, reader, classified, accounts, service>>

\* no call of get_personalized_feed has returned since the last write
NoFeed ==
    [called |-> FALSE, user_id |-> 0, limit |-> 0, result |-> <<>>,
     caught |-> FALSE, backfilled |-> FALSE, raised |-> FALSE]

\* the frame of create_user before the registration request came
IdleSignup == [pc |-> "idle", user_id |-> 0, backend |-> "none", outcome |-> "none"]

\* the frame of update_user_preference with no request in it
IdleUpdater ==
    [pc |-> "idle", user_id |-> 0, preference |-> [category |-> "none", weight |-> 0],
     existing |-> FALSE, loaded |-> 0, backend |-> "none", outcome |-> "none"]

\* the database the application is deployed on (database.DATABASE_URL)
Backends == {"sqlite", "postgresql"}

\* the requests POST /api/articles/{article_id}/read that can be in flight
Readers == {"r1", "r2"}

\* the frame of a request that is not inside mark_as_read
IdleReader == [pc |-> "idle", user_id |-> 0, article_id |-> 0, outcome |-> "none"]

\* the frame of a worker that is not inside parse_and_save_articles
IdleProc ==
    [pc |-> "idle", variant |-> "batch", source_id |-> 0,
     fetch |-> [kind |-> "none", entries |-> <<>>],
     articles_data |-> <<>>, i |-> 0, existing_urls |-> {}, saved_count |-> 0,
     rerun |-> FALSE, outcomes |-> <<>>]

StoredUrls(rows) == {r.source_url : r \in rows}

\* ------------------------------------------------------------ the database
\* The rowid SQLite gives a row inserted without an id: the largest in use + 1.
NewId(rows) == IF rows = {} THEN 1 ELSE Max({r.id : r \in rows}) + 1

\* A mutant of create_article: the table without its unique constraint.
create_article_no_unique(rows, article) ==
    [raised |-> FALSE,
     articles |-> rows \cup {[id |-> NewId(rows)] @@ article}]

\* crud.create_article: add + commit.  Article.source_url is unique, so the
\* commit of a second row with a stored URL raises IntegrityError; the session
\* is rolled back and the exception re-raised.
create_article(rows, article) ==
    IF article.source_url \in StoredUrls(rows)
    THEN [raised |-> TRUE, articles |-> rows]
    ELSE [raised |-> FALSE,
          articles |-> rows \cup {[id |-> NewId(rows)] @@ article}]

\* crud.delete_article
delete_article(rows, article_id) == {r \in rows : r.id # article_id}

\* --------------------------------------------------------------- ingestion
\* The keyword arguments parse_and_save_articles passes to schemas.ArticleCreate.
\* app/rss_parser.py cuts title, summary, content and source_url;
\* app/parser/rss_parser.py cuts title and summary only.
ArticleFields(variant, item, source_id) ==
    [title |-> Slice(item.title, TitleLimit),
     summary |-> IF Truthy(item.summary) THEN Slice(item.summary, SummaryLimit) ELSE NoneTxt,
     content |-> IF variant = "batch"
                 THEN (IF Truthy(item.content) THEN Slice(item.content, ContentLimit) ELSE EmptyTxt)
                 ELSE item.content,
     source_url |-> IF variant = "batch" THEN Slice(item.source_url, UrlLimit) ELSE item.source_url,
     category |-> item.category,
     source_id |-> source_id,
     published_at |-> item.published_at]

\* schemas.ArticleCreate: title, content, summary, source_url and category are
\* declared str, so None is rejected (pydantic ValidationError).
ArticleCreate(fields) ==
    [raised |-> fields.summary = NoneTxt \/ fields.content = NoneTxt
                    \/ fields.title = NoneTxt \/ fields.source_url = NoneTxt,
     value |-> fields]

\* end of one iteration of the for loop; after the last item: return saved_count
NextItem(st, outcome) ==
    [st EXCEPT !.i = @ + 1,
               !.outcomes = Append(@, outcome),
               !.pc = IF st.i + 1 > Len(st.articles_data) THEN "done" ELSE "loop"]

\* A mutant of OnItemError: no try/except around the item.
OnItemErrorAbort(st, why) == [st EXCEPT !.pc = "raised", !.outcomes = Append(@, why)]

\* A mutant of OnItemError: the item is counted although it was not saved.
OnItemErrorCount(st, why) == NextItem([st EXCEPT !.saved_count = @ + 1], why)

\* except Exception: print; continue
OnItemError(st, why) == NextItem(st, why)

\* saved_count += 1 after create_article returned
OnItemSaved(st) == NextItem([st EXCEPT !.saved_count = @ + 1], "saved")

\* The frame after parse_feed returned (or raised) at the top of
\* parse_and_save_articles.  An empty result returns 0 at once.
AfterFetch(st, variant, source_id, response) ==
    LET fetched == parse_feed(variant, response)
        base == [st EXCEPT !.variant = variant, !.source_id = source_id,
                           !.fetch = response, !.articles_data = fetched.articles,
                           !.i = 1, !.existing_urls = {}, !.saved_count = 0,
                           !.outcomes = <<>>]
    IN IF fetched.raised THEN [base EXCEPT !.pc = "raised"]
       ELSE IF fetched.articles = <<>> THEN [base EXCEPT !.pc = "done"]
       ELSE [base EXCEPT !.pc = IF variant = "batch" THEN "check" ELSE "loop"]

\* call parse_and_save_articles(db, source_id, rss_url); await parse_feed
Call(p, variants, sources, responses) ==
    /\ proc[p].pc = "idle"
    /\ \E variant \in variants, source_id \in sources, response \in responses :
          proc' = [proc EXCEPT ![p] = AfterFetch([IdleProc EXCEPT !.rerun = FALSE],
                                                 variant, source_id, response)]
    /\ UNCHANGED <<articles, ranking>>

\* a call of either copy of the parser, on any response
Fetch(p) == Call(p, {"batch", "peritem"}, {1}, Responses)

\* the source a worker refreshes
SourceOf == [p \in Workers |-> IF p = "w1" THEN 1 ELSE 2]

\* a call of app/rss_parser.py on a feed of the entries the two sources share
FetchShared(p) == Call(p, {"batch"}, {SourceOf[p]}, SharedResponses)

\* A mutant of Rerun: the URLs the previous cycle saw are kept as a dedup set
\* and the next cycle of app/rss_parser.py does not read the store again.
RerunCached(p) ==
    /\ proc[p].pc = "done"
    /\ ~proc[p].rerun
    /\ LET st == AfterFetch([IdleProc EXCEPT !.rerun = TRUE],
                            proc[p].variant, proc[p].source_id, proc[p].fetch)
           seen == {proc[p].articles_data[k].source_url :
                       k \in 1..Len(proc[p].articles_data)}
       IN proc' = [proc EXCEPT ![p] =
                     IF st.pc = "check"
                     THEN [st EXCEPT !.pc = "loop", !.existing_urls = seen]
                     ELSE st]
    /\ UNCHANGED <<articles, ranking>>

\* the caller runs the same ingest again at once, the feed being unchanged
Rerun(p) ==
    /\ proc[p].pc = "done"
    /\ ~proc[p].rerun
    /\ proc' = [proc EXCEPT ![p] = AfterFetch([IdleProc EXCEPT !.rerun = TRUE],
                                              proc[p].variant, proc[p].source_id, proc[p].fetch)]
    /\ UNCHANGED <<articles, ranking>>

\* app/rss_parser.py: one SELECT source_url ... WHERE source_url IN (...)
CheckExisting(p) ==
    /\ proc[p].pc = "check"
    /\ LET source_urls == {proc[p].articles_data[k].source_url :
                              k \in 1..Len(proc[p].articles_data)}
       IN proc' = [proc EXCEPT ![p].existing_urls = source_urls \cap StoredUrls(articles),
                               ![p].pc = "loop"]
    /\ UNCHANGED <<articles, ranking>>

\* ArticleCreate(...), await crud.create_article(db, article), saved_count += 1
Persist(p, st, item) ==
    LET built == ArticleCreate(ArticleFields(st.variant, item, st.source_id))
        res == create_article(articles, built.value)
    IN /\ UNCHANGED ranking
       /\ IF built.raised
          THEN /\ proc' = [proc EXCEPT ![p] = OnItemError(st, "invalid")]
               /\ UNCHANGED articles
          ELSE IF res.raised
          THEN /\ proc' = [proc EXCEPT ![p] = OnItemError(st, "conflict")]
               /\ UNCHANGED articles
          ELSE /\ NewId(articles) <= MaxArticleId
               /\ articles' = res.articles
               /\ proc' = [proc EXCEPT ![p] = OnItemSaved(st)]

\* One iteration of the loop of app/rss_parser.py: skip what the batched
\* check found, else persist.
LoopBatch(p) ==
    /\ proc[p].pc = "loop"
    /\ proc[p].variant = "batch"
    /\ LET st == proc[p]
           item == st.articles_data[st.i]
       IN IF item.source_url \in st.existing_urls
          THEN /\ proc' = [proc EXCEPT ![p] = NextItem(st, "skipped")]
               /\ UNCHANGED <<articles, ranking>>
          ELSE Persist(p, st, item)

\* app/parser/rss_parser.py: SELECT id FROM articles WHERE source_url = :u
\* for the item, and `continue` when a row came back
SelectItem(p) ==
    /\ proc[p].pc = "loop"
    /\ proc[p].variant = "peritem"
    /\ LET st == proc[p]
           item == st.articles_data[st.i]
       IN proc' = [proc EXCEPT ![p] =
                     IF item.source_url \in StoredUrls(articles)
                     THEN NextItem(st, "skipped")
                     ELSE [st EXCEPT !.pc = "insert"]]
    /\ UNCHANGED <<articles, ranking>>

\* app/parser/rss_parser.py: the rest of the iteration after the SELECT
InsertItem(p) ==
    /\ proc[p].pc = "insert"
    /\ Persist(p, proc[p], proc[p].articles_data[proc[p].i])

\* return saved_count (or the exception leaves the function)
Return(p) ==
    /\ proc[p].pc \in {"done", "raised"}
    /\ proc' = [proc EXCEPT ![p] = IdleProc]
    /\ UNCHANGED <<articles, ranking>>

\* ------------------------------------------------------- request handlers
ArticleBody(t, url, category, published_at) ==
    [title |-> Txt(t, 40), summary |-> Txt("s9", 100), content |-> Txt("d9", 300),
     source_url |-> url, category |-> category, source_id |-> 1,
     published_at |-> published_at]

\* the request body an admin posts while the workers run
AdminArticles == {ArticleBody("t9", Txt("a", 20), "GENERAL", 0)}

\* the request bodies an admin posts to fill the store the feed is read from
FeedArticles ==
    {ArticleBody("t5", Txt("f1", 20), "TECHNOLOGY", 3),
     ArticleBody("t6", Txt("f2", 20), "TECHNOLOGY", 1),
     ArticleBody("t7", Txt("f3", 20), "SPORTS", 3),
     ArticleBody("t8", Txt("f4", 20), "SPORTS", 0)}

\* POST /api/articles/ (admin): crud.create_article on a request body
PostArticle(bodies) ==
    /\ \E article \in bodies :
          LET res == create_article(articles, article)
          IN /\ ~res.raised => NewId(articles) <= MaxArticleId
             /\ articles' = res.articles
    /\ feed' = NoFeed
    /\ UNCHANGED <<proc, reader, classified, accounts, service, user_preferences, read_history>>

create_article_endpoint == PostArticle(AdminArticles)

create_feed_article == PostArticle(FeedArticles)

\* DELETE /api/articles/{article_id} (admin): a Core DELETE, so no ORM cascade
\* runs and the read_history rows of the article stay
delete_article_endpoint ==
    /\ \E article_id \in 1..MaxArticleId :
          articles' = delete_article(articles, article_id)
    /\ feed' = NoFeed
    /\ UNCHANGED <<proc, reader, classified, accounts, service, user_preferences, read_history>>

\* the names of models.ArticleCategory: what an Enum(ArticleCategory) column
\* can hand back; any other stored string raises LookupError when a row is loaded
EnumNames == {ArticleCategory[i] : i \in 1..Len(ArticleCategory)}

\* weights are kept in hundredths: 80 is 0.8
PreferenceBodies ==
    [category : {"TECHNOLOGY", "SPORTS", "sports"}, weight : {10, 80}]

\* crud.update_user_preference: [raised, rows]
update_user_preference(rows, user_id, preference) ==
    LET existing == {r \in rows : r.user_id = user_id /\ r.category = preference.category}
        new == [user_id |-> user_id, category |-> preference.category,
                weight |-> preference.weight]
    IN IF existing # {}
       THEN IF preference.category \in EnumNames
            THEN [raised |-> FALSE, rows |-> (rows \ existing) \cup {new}]
            ELSE [raised |-> TRUE, rows |-> rows]
       ELSE [raised |-> preference.category \notin EnumNames, rows |-> rows \cup {new}]

\* schemas.ArticleCategory, by value, in definition order
CategoryValues ==
    <<"politics", "technology", "sports", "business",
      "entertainment", "science", "health", "general">>

\* the rows of user_preferences for a (user, category) pair
PreferencesOf(rows, user_id, category) ==
    {r \in rows : r.user_id = user_id /\ r.category = category}

\* what a backend does with a string bound to an Enum(ArticleCategory) column:
\* SQLAlchemy passes a string that is no enum name through unchecked; SQLite
\* stores it in its VARCHAR column, PostgreSQL rejects it for its enum type
Storable(category, backend) == category \in EnumNames \/ backend = "sqlite"

\* the backends a request can find itself on: the one of a request in flight,
\* and only SQLite holds a category that is no enum name
BackendsOf(rows) ==
    {b \in Backends :
        /\ signup.pc # "idle" => b = signup.backend
        /\ updater.pc # "idle" => b = updater.backend
        /\ b = "postgresql" => \A r \in rows : r.category \in EnumNames}

\* db.add(...) of the rows new and one commit: [raised, rows].  The unique index
\* idx_user_preference_user_category rejects a second row of a pair; a failed
\* commit stores none of the rows.
add_preferences(rows, new, backend) ==
    IF \/ \E r \in new : ~Storable(r.category, backend)
       \/ \E r \in new : PreferencesOf(rows, r.user_id, r.category) # {}
    THEN [raised |-> TRUE, rows |-> rows]
    ELSE [raised |-> FALSE, rows |-> rows \cup new]

\* the rows create_user adds for a user: one per schemas.ArticleCategory, the
\* category given by its value, weight 0.5
DefaultPreferences(user_id) ==
    {[user_id |-> user_id, category |-> CategoryValues[i], weight |-> 50] :
        i \in 1..Len(CategoryValues)}

\* crud.create_user up to the first commit: the user row is stored
CreateUserAdd ==
    /\ signup.pc = "idle"
    /\ Cardinality(users) < MaxUsers
    /\ \E backend \in BackendsOf(user_preferences) :
          signup' = [pc |-> "prefs", user_id |-> Cardinality(users) + 1,
                     backend |-> backend, outcome |-> "none"]
    /\ users' = users \cup {Cardinality(users) + 1}
    /\ UNCHANGED <<articles, proc, user_preferences, read_history, feed, reader,
                   classified, updater, service>>

\* crud.create_user: the loop over schemas.ArticleCategory, the second commit
\* and refresh; any exception is rolled back and turned into HTTP 500
CreateUserPreferences ==
    /\ signup.pc = "prefs"
    /\ LET res == add_preferences(user_preferences, DefaultPreferences(signup.user_id),
                                  signup.backend)
       IN /\ user_preferences' = res.rows
          /\ signup' = [signup EXCEPT !.pc = "done",
                                      !.outcome = IF res.raised THEN "error" ELSE "created"]
    /\ feed' = IF user_preferences' = user_preferences THEN feed ELSE NoFeed
    /\ UNCHANGED <<articles, proc, read_history, reader, classified, users, updater, service>>

\* the response of POST /api/auth/register is sent
CreateUserReturn ==
    /\ signup.pc = "done"
    /\ signup' = IdleSignup
    /\ UNCHANGED <<articles, proc, user_preferences, read_history, feed, reader,
                   classified, users, updater, service>>

\* the request bodies of the preference updates that run beside a registration
UpdateBodies == [category : {"TECHNOLOGY", "sports"}, weight : {10, 80}]

\* crud.update_user_preference up to result.scalar_one_or_none(): the SELECT
\* binds preference.category (PostgreSQL rejects a string that is no label of
\* its enum) and loads the row of the pair (a stored category that is no enum
\* name raises LookupError)
PreferenceSelect ==
    /\ updater.pc = "idle"
    /\ \E user_id \in users, preference \in UpdateBodies,
          backend \in BackendsOf(user_preferences) :
          LET found == PreferencesOf(user_preferences, user_id, preference.category)
              frame == [pc |-> "commit", user_id |-> user_id, preference |-> preference,
                        existing |-> found # {}, loaded |-> 0, backend |-> backend,
                        outcome |-> "none"]
          IN updater' =
                IF \/ ~Storable(preference.category, backend)
                   \/ Cardinality(found) > 1
                   \/ (found # {} /\ preference.category \notin EnumNames)
                THEN [frame EXCEPT !.pc = "done", !.outcome = "error"]
                ELSE IF found # {}
                THEN [frame EXCEPT !.loaded = (CHOOSE r \in found : TRUE).weight]
                ELSE frame
    /\ UNCHANGED <<articles, proc, user_preferences, read_history, feed, reader,
                   classified, users, signup, service>>

\* crud.update_user_preference from `if existing` on: set the weight of the
\* loaded row (an UPDATE by primary key, none when the weight is the loaded
\* one) or add a row; commit; refresh, which raises LookupError for a stored
\* category that is no enum name
PreferenceCommit ==
    /\ updater.pc = "commit"
    /\ LET pair == PreferencesOf(user_preferences, updater.user_id, updater.preference.category)
           new == [user_id |-> updater.user_id, category |-> updater.preference.category,
                   weight |-> updater.preference.weight]
           res == add_preferences(user_preferences, {new}, updater.backend)
       IN IF updater.existing
          THEN /\ user_preferences' =
                     IF updater.preference.weight = updater.loaded
                     THEN user_preferences
                     ELSE (user_preferences \ pair) \cup {new}
               /\ updater' = [updater EXCEPT !.pc = "done", !.outcome = "updated"]
          ELSE /\ user_preferences' = res.rows
               /\ updater' = [updater EXCEPT
                     !.pc = "done",
                     !.outcome = IF res.raised \/ updater.preference.category \notin EnumNames
                                 THEN "error" ELSE "inserted"]
    /\ feed' = IF user_preferences' = user_preferences THEN feed ELSE NoFeed
    /\ UNCHANGED <<articles, proc, read_history, reader, classified, users, signup, service>>

\* the response of POST /api/user/preferences is sent
PreferenceReturn ==
    /\ updater.pc = "done"
    /\ updater' = IdleUpdater
    /\ UNCHANGED <<articles, proc, user_preferences, read_history, feed, reader,
                   classified, users, signup, service>>

\* POST /api/user/preferences
update_preference ==
    /\ \E user_id \in Users, preference \in PreferenceBodies :
          user_preferences' = update_user_preference(user_preferences, user_id, preference).rows
    /\ feed' = NoFeed
    /\ UNCHANGED <<articles, proc, reader, classified, accounts, service, read_history>>

\* the rows of read_history for a (user, article) pair
HistoryOf(rows, user_id, article_id) ==
    {h \in rows : h.user_id = user_id /\ h.article_id = article_id}

\* A mutant of AlreadyRead: the SELECT never finds the pair.
AlreadyReadNever(rows, user_id, article_id) == FALSE

\* the SELECT of create_read_history: result.scalar_one_or_none() is truthy
AlreadyRead(rows, user_id, article_id) == HistoryOf(rows, user_id, article_id) # {}

\* db.add(db_history); await db.commit(): [raised, rows].  The unique index
\* idx_read_history_user_article rejects a second row of the pair, and a
\* backend that enforces foreign keys (PostgreSQL; SQLite does not unless told
\* to) rejects a row for an article that is not stored: IntegrityError.  Rows
\* of one pair are told apart by copy, the k-th row stored for the pair.
add_read_history(rows, arts, user_id, article_id, fk) ==
    IF HistoryOf(rows, user_id, article_id) # {}
          \/ (fk = "enforced" /\ ~\E r \in arts : r.id = article_id)
    THEN [raised |-> TRUE, rows |-> rows]
    ELSE [raised |-> FALSE,
          rows |-> rows \cup {[user_id |-> user_id, article_id |-> article_id, copy |-> 1]}]

\* crud.create_read_history run in one piece: None when the pair is stored,
\* else the new row
create_read_history(rows, user_id, article_id) ==
    IF AlreadyRead(rows, user_id, article_id)
    THEN rows
    ELSE rows \cup {[user_id |-> user_id, article_id |-> article_id, copy |-> 1]}

\* POST /api/articles/{article_id}/read
mark_as_read ==
    /\ \E user_id \in Users, article_id \in 1..MaxArticleId :
          read_history' = create_read_history(read_history, user_id, article_id)
    /\ feed' = NoFeed
    /\ UNCHANGED <<articles, proc, reader, classified, accounts, service, user_preferences>>

\* mark_as_read up to the SELECT of create_read_history: a pair that is found
\* returns None, which the endpoint reports as already recorded
ReadSelect(r) ==
    /\ reader[r].pc = "idle"
    /\ \E user_id \in Users, article_id \in 1..MaxArticleId :
          reader' = [reader EXCEPT ![r] =
              IF AlreadyRead(read_history, user_id, article_id)
              THEN [pc |-> "done", user_id |-> user_id, article_id |-> article_id,
                    outcome |-> "already"]
              ELSE [pc |-> "insert", user_id |-> user_id, article_id |-> article_id,
                    outcome |-> "none"]]
    /\ UNCHANGED <<articles, proc, user_preferences, read_history, feed, classified, accounts, service>>

\* the rest of create_read_history: add, commit, refresh, return the row; an
\* exception of the commit is not caught, get_db rolls back and re-raises and
\* the request ends in an error
ReadInsert(r) ==
    /\ reader[r].pc = "insert"
    /\ \E fk \in {"enforced", "ignored"} :
          LET res == add_read_history(read_history, articles,
                                      reader[r].user_id, reader[r].article_id, fk)
          IN /\ read_history' = res.rows
             /\ reader' = [reader EXCEPT ![r].pc = "done",
                                          ![r].outcome = IF res.raised THEN "error"
                                                         ELSE "recorded"]
    /\ feed' = IF read_history' = read_history THEN feed ELSE NoFeed
    /\ UNCHANGED <<articles, proc, user_preferences, classified, accounts, service>>

\* the response is sent
ReadReturn(r) ==
    /\ reader[r].pc = "done"
    /\ reader' = [reader EXCEPT ![r] = IdleReader]
    /\ UNCHANGED <<articles, proc, user_preferences, read_history, feed, classified, accounts, service>>

\* a call of _categorize_article(title, summary)
Classify ==
    /\ ~classified.called
    /\ \E title \in Texts, summary \in Texts :
          classified' = [called |-> TRUE, title |-> title, summary |-> summary,
                         category |-> CategorizeText(title, summary)]
    /\ UNCHANGED <<articles, proc, user_preferences, read_history, feed, reader, accounts, service>>

\* ------------------------------------------------------ personalised feed
Perms(S) ==
    {f \in [1..Cardinality(S) -> S] : \A i, j \in 1..Cardinality(S) : i # j => f[i] # f[j]}

\* ORDER BY published_at DESC: SQLite puts NULL last, PostgreSQL first
OrderKey(r, nulls) ==
    IF r.published_at = 0 THEN (IF nulls = "first" THEN 1000000 ELSE -1) ELSE r.published_at

\* the results a SELECT ... ORDER BY published_at DESC LIMIT limit can give
\* over the candidate rows (rows of equal timestamp come in any order)
QueryDesc(candidates, limit, nulls) ==
    {Take(f, limit) :
        f \in {g \in Perms(candidates) :
                 \A i, j \in 1..Cardinality(candidates) :
                     i < j => OrderKey(g[i], nulls) >= OrderKey(g[j], nulls)}}

Ids(seq) == {seq[k].id : k \in 1..Len(seq)}

\* crud.get_user_preferences: [raised, rows]; loading a row whose category is
\* no enum name raises LookupError
get_user_preferences(rows, user_id) ==
    LET mine == {r \in rows : r.user_id = user_id}
    IN [raised |-> \E r \in mine : r.category \notin EnumNames, rows |-> mine]

\* crud.get_user_read_history: the user's rows joined with their articles, as dicts
get_user_read_history(rows, arts, user_id) ==
    {h \in rows : h.user_id = user_id /\ \E r \in arts : r.id = h.article_id}

\* A mutant of ReadArticleIds: the history is not consulted.
ReadArticleIdsIgnored(history) == [raised |-> FALSE, ids |-> {}]

\* read_article_ids = [h.article_id for h in history] if history else []:
\* history holds dicts, so h.article_id raises AttributeError on the first one
ReadArticleIds(history) ==
    IF history = {} THEN [raised |-> FALSE, ids |-> {}]
    ELSE [raised |-> TRUE, ids |-> {}]

\* the loop over preferences reads pref.source_id, which UserPreference does
\* not have: AttributeError on the first preference
PreferredOf(preferences) ==
    IF preferences = {} THEN [raised |-> FALSE, categories |-> {}]
    ELSE [raised |-> TRUE, categories |-> {}]

\* A mutant of GeneralExcluded: the articles already selected are not excluded.
GeneralExcludedReadOnly(selected, read_article_ids) == read_article_ids

\* the ids general_query leaves out: [a.id for a in articles] + read_article_ids
GeneralExcluded(selected, read_article_ids) == Ids(selected) \cup read_article_ids

\* A mutant of get_personalized_feed: no try/except, so an exception inside
\* leaves the function.
get_personalized_feed_no_catch(arts, prefs, hist, user_id, limit, nulls) ==
    LET preferences == get_user_preferences(prefs, user_id)
        history == get_user_read_history(hist, arts, user_id)
        read == ReadArticleIds(history)
        preferred == PreferredOf(preferences.rows)
        failed == [result |-> <<>>, caught |-> FALSE, backfilled |-> FALSE, raised |-> TRUE]
    IN IF preferences.raised \/ read.raised \/ preferred.raised
       THEN {failed}
       ELSE LET unread == {r \in arts : r.id \notin read.ids}
            IN UNION {
                 IF Len(first) < limit \div 2
                 THEN {[result |-> first \o general, caught |-> FALSE, backfilled |-> TRUE,
                        raised |-> FALSE] :
                          general \in QueryDesc(
                              {r \in arts : r.id \notin GeneralExcluded(first, read.ids)},
                              limit - Len(first), nulls)}
                 ELSE {[result |-> first, caught |-> FALSE, backfilled |-> FALSE,
                        raised |-> FALSE]}
                 : first \in QueryDesc(unread, limit, nulls)}

\* crud.get_personalized_feed: the set of [result, caught, backfilled, raised]
\* it can return.  Any exception inside the try is caught and [] returned.
get_personalized_feed(arts, prefs, hist, user_id, limit, nulls) ==
    LET preferences == get_user_preferences(prefs, user_id)
        history == get_user_read_history(hist, arts, user_id)
        read == ReadArticleIds(history)
        preferred == PreferredOf(preferences.rows)
        failed == [result |-> <<>>, caught |-> TRUE, backfilled |-> FALSE, raised |-> FALSE]
    IN IF preferences.raised \/ read.raised \/ preferred.raised
       THEN {failed}
       ELSE LET unread == {r \in arts : r.id \notin read.ids}
            IN UNION {
                 IF Len(first) < limit \div 2
                 THEN {[result |-> first \o general, caught |-> FALSE, backfilled |-> TRUE,
                        raised |-> FALSE] :
                          general \in QueryDesc(
                              {r \in arts : r.id \notin GeneralExcluded(first, read.ids)},
                              limit - Len(first), nulls)}
                 ELSE {[result |-> first, caught |-> FALSE, backfilled |-> FALSE,
                        raised |-> FALSE]}
                 : first \in QueryDesc(unread, limit, nulls)}

\* GET of the personalised feed: crud.get_personalized_feed(db, user_id, limit)
personal_feed ==
    /\ \E user_id \in Users, limit \in 1..MaxLimit, nulls \in {"first", "last"} :
          \E out \in get_personalized_feed(articles, user_preferences, read_history,
                                           user_id, limit, nulls) :
              feed' = [called |-> TRUE, user_id |-> user_id, limit |-> limit,
                       result |-> out.result, caught |-> out.caught,
                       backfilled |-> out.backfilled, raised |-> out.raised]
    /\ UNCHANGED <<articles, proc, reader, classified, accounts, service, user_preferences, read_history>>

Init ==
    /\ articles = {}
    /\ proc = [p \in Workers |-> IdleProc]
    /\ user_preferences = {}
    /\ read_history = {}
    /\ feed = NoFeed
    /\ reader = [r \in Readers |-> IdleReader]
    /\ classified = NotClassified
    /\ users = {}
    /\ signup = IdleSignup
    /\ updater = IdleUpdater
    /\ news_sources = {}
    /\ lifecycle = "startup"
    /\ sync = NoSync

\* Two workers run app/rss_parser.py concurrently (the scheduled refresh and an
\* administrative trigger) beside the admin article endpoints.
Next ==
    \/ \E p \in Workers : FetchShared(p)
    \/ \E p \in Workers : CheckExisting(p)
    \/ \E p \in Workers : LoopBatch(p)
    \/ \E p \in Workers : Return(p)
    \/ create_article_endpoint

Spec == Init /\ [][Next]_vars

\* One worker alone, either copy of the parser, no other writer.
NextSeq ==
    \/ Fetch("w1")
    \/ Rerun("w1")
    \/ CheckExisting("w1")
    \/ LoopBatch("w1")
    \/ SelectItem("w1")
    \/ InsertItem("w1")
    \/ Return("w1")

SpecSeq == Init /\ [][NextSeq]_vars

\* Two calls of app/rss_parser.py racing, each running once, no other writer.
NextRace ==
    \/ \E p \in Workers : FetchShared(p)
    \/ \E p \in Workers : CheckExisting(p)
    \/ \E p \in Workers : LoopBatch(p)

SpecRace == Init /\ [][NextRace]_vars

\* The requests that fill the tables the feed is computed from, and the feed.
NextFeed ==
    \/ create_feed_article
    \/ delete_article_endpoint
    \/ update_preference
    \/ mark_as_read
    \/ personal_feed

SpecFeed == Init /\ [][NextFeed]_vars

\* Calls of _categorize_article on any title and summary.
NextClassify == Classify

SpecClassify == Init /\ [][NextClassify]_vars

\* Registrations and preference updates, interleaved in any way.
NextUsers ==
    \/ CreateUserAdd
    \/ CreateUserPreferences
    \/ CreateUserReturn
    \/ PreferenceSelect
    \/ PreferenceCommit
    \/ PreferenceReturn

SpecUsers == Init /\ [][NextUsers]_vars

\* One mark-as-read request at a time, beside the admin posting articles.
NextRead ==
    \/ ReadSelect("r1")
    \/ ReadInsert("r1")
    \/ ReadReturn("r1")
    \/ create_feed_article

SpecRead == Init /\ [][NextRead]_vars

\* Two mark-as-read requests in flight, beside the admin posting articles.
NextReadRace ==
    \/ \E r \in Readers : ReadSelect(r)
    \/ \E r \in Readers : ReadInsert(r)
    \/ \E r \in Readers : ReadReturn(r)
    \/ create_feed_article

SpecReadRace == Init /\ [][NextReadRace]_vars

\* ------------------------------------------------------------- properties
Failures == {"invalid", "conflict"}

\* worker p finishes the iteration on its current item in this step
ItemDone(p) ==
    /\ proc[p].pc \in {"loop", "insert"}
    /\ proc'[p].i = proc[p].i + 1

CurrentItem(p) == proc[p].articles_data[proc[p].i]

\* C1 (as claimed): one call of ingest persists exactly the candidates whose
\* source URL is not yet stored and counts them: an item whose URL is not in
\* the store adds one row and one to the count, any other item adds nothing.
C1_PersistsExactlyNewCandidates ==
    [][\A p \in Workers :
          ItemDone(p) =>
              IF CurrentItem(p).source_url \notin StoredUrls(articles)
              THEN /\ Cardinality(articles') = Cardinality(articles) + 1
                   /\ proc'[p].saved_count = proc[p].saved_count + 1
              ELSE /\ articles' = articles
                   /\ proc'[p].saved_count = proc[p].saved_count]_vars

\* C2: ingest run again at once on the unchanged feed, with no other writer,
\* saves nothing: its count stays 0 and no step of it changes the store.
C2_SecondRunSavesNothing ==
    [][\A p \in Workers :
          proc'[p].rerun => /\ proc'[p].saved_count = 0
                            /\ articles' = articles]_vars

C2_Witness ==
    /\ proc["w1"].rerun
    /\ proc["w1"].pc = "done"
    /\ \E k \in 1..Len(proc["w1"].outcomes) : proc["w1"].outcomes[k] = "skipped"
    /\ \E k \in 1..Len(proc["w1"].outcomes) : proc["w1"].outcomes[k] = "conflict"

\* C3: an item whose persistence fails (ValidationError, IntegrityError) is
\* caught: the call does not raise, the store keeps every row it had, the loop
\* goes on to the next item, and a finished call has gone through every item.
C3_ItemFailureIsContained ==
    [][\A p \in Workers :
          /\ (/\ Len(proc'[p].outcomes) = Len(proc[p].outcomes) + 1
              /\ proc'[p].outcomes[Len(proc'[p].outcomes)] \in Failures)
                 => /\ proc'[p].pc # "raised"
                    /\ articles' = articles
                    /\ proc'[p].i = proc[p].i + 1
                    /\ proc'[p].pc = IF proc[p].i < Len(proc[p].articles_data)
                                     THEN "loop" ELSE "done"
          /\ proc'[p].pc # "raised"
          /\ proc'[p].pc = "done" => Len(proc'[p].outcomes) = Len(proc'[p].articles_data)]_vars

C3_Witness ==
    \E p \in Workers :
        /\ proc[p].pc = "done"
        /\ Len(proc[p].outcomes) = 2
        /\ proc[p].outcomes[1] = "conflict"
        /\ proc[p].outcomes[2] = "saved"
        /\ \E q \in Workers : /\ Len(proc[q].outcomes) = 2
                              /\ proc[q].outcomes[1] = "saved"
                              /\ proc[q].outcomes[2] = "invalid"

\* C4: no two stored articles have the same source_url.
C4_SourceUrlUnique ==
    \A r1 \in articles : \A r2 \in articles :
        r1.source_url = r2.source_url => r1 = r2

C4_Witness ==
    /\ Cardinality(articles) >= 2
    /\ \E p \in Workers :
          /\ proc[p].pc = "loop"
          /\ proc[p].i = 2
          /\ proc[p].outcomes = <<"conflict">>
          /\ proc[p].existing_urls = {}

\* C5: of two racing cycles only one inserts a shared new URL, and only it
\* counts the item: the counts of the two cycles add up to the rows added.
C5_CountsAddUpToRowsAdded ==
    /\ proc["w1"].saved_count + proc["w2"].saved_count = Cardinality(articles)
    /\ C4_SourceUrlUnique

C5_Witness ==
    /\ \A p \in Workers : proc[p].pc = "done"
    /\ \E u \in StoredUrls(articles) :
          /\ \A p \in Workers :
                /\ u.len > 0
                /\ Len(proc[p].articles_data) = 1
                /\ Slice(proc[p].articles_data[1].source_url, UrlLimit) = u
                /\ proc[p].existing_urls = {}
          /\ \E p \in Workers : proc[p].outcomes = <<"saved">>
          /\ \E p \in Workers : proc[p].outcomes = <<"conflict">>

ReadIdsOf(user_id) == {h.article_id : h \in {x \in read_history : x.user_id = user_id}}

UnreadOf(user_id) == {r \in articles : r.id \notin ReadIdsOf(user_id)}

\* C7: the personalised feed holds no article of the user's read history.
C7_FeedExcludesRead ==
    feed.called =>
        \A k \in 1..Len(feed.result) : feed.result[k].id \notin ReadIdsOf(feed.user_id)

C7_Witness ==
    /\ feed.called
    /\ \E r \in articles : r.id \in ReadIdsOf(feed.user_id)
    /\ UnreadOf(feed.user_id) # {}
    /\ user_preferences = {}

\* C8 (as claimed): the feed is topped up with unread articles until it has
\* limit items or no unread article is left.
C8_FeedIsToppedUp ==
    feed.called =>
        Len(feed.result) =
            (IF Cardinality(UnreadOf(feed.user_id)) < feed.limit
             THEN Cardinality(UnreadOf(feed.user_id)) ELSE feed.limit)

\* the categories the user weights above 0.3
PreferredCategories(user_id) ==
    {r.category : r \in {x \in user_preferences : x.user_id = user_id /\ x.weight > 30}}

\* C9 (as claimed): with at least limit unread articles in the categories
\* weighted above 0.3, the feed is the limit most recent of them.
C9_FeedIsMostRecentPreferred ==
    LET preferred == {r \in UnreadOf(feed.user_id) :
                         r.category \in PreferredCategories(feed.user_id)}
    IN (feed.called /\ Cardinality(preferred) >= feed.limit) =>
          /\ Len(feed.result) = feed.limit
          /\ \A k \in 1..Len(feed.result) :
                /\ feed.result[k] \in preferred
                /\ \A q \in preferred \ {feed.result[n] : n \in 1..Len(feed.result)} :
                      q.published_at <= feed.result[k].published_at

\* C10: the feed has at most limit items and no article id twice.
C10_FeedBoundedNoDuplicates ==
    feed.called =>
        /\ Len(feed.result) <= feed.limit
        /\ \A i, j \in 1..Len(feed.result) :
              i # j => feed.result[i].id # feed.result[j].id

C10_Witness ==
    /\ feed.called
    /\ feed.backfilled
    /\ Len(feed.result) >= 1

\* the unread articles of the preferred tier: those of the categories the user
\* weights above 0.3, every unread article for a user without preferences
PreferredTier(user_id) ==
    IF \E x \in user_preferences : x.user_id = user_id
    THEN {r \in UnreadOf(user_id) : r.category \in PreferredCategories(user_id)}
    ELSE UnreadOf(user_id)

\* positions lo..hi of the feed are in non-increasing order of publish time
\* (articles without a publish time are not compared)
FeedSortedDesc(lo, hi) ==
    \A i, j \in lo..hi :
        (i < j /\ feed.result[i].published_at # 0 /\ feed.result[j].published_at # 0)
            => feed.result[i].published_at >= feed.result[j].published_at

\* C11 (as claimed): the feed is the preferred-tier articles followed by the
\* backfill articles, each tier in non-increasing order of publish time, no
\* backfill article before a preferred-tier one.
C11_FeedIsPreferredThenBackfill ==
    LET tier == PreferredTier(feed.user_id)
        n == IF Cardinality(tier) < feed.limit THEN Cardinality(tier) ELSE feed.limit
    IN feed.called =>
          /\ Len(feed.result) >= n
          /\ \A k \in 1..Len(feed.result) : (k <= n) <=> (feed.result[k] \in tier)
          /\ FeedSortedDesc(1, n)
          /\ FeedSortedDesc(n + 1, Len(feed.result))

\* C12 (as claimed): for a user without preference rows the feed is the limit
\* most recently published unread articles over all categories.
C12_NoPreferencesAllCategories ==
    LET unread == UnreadOf(feed.user_id)
        shown == {feed.result[k] : k \in 1..Len(feed.result)}
    IN (feed.called /\ ~\E x \in user_preferences : x.user_id = feed.user_id) =>
          /\ Len(feed.result) =
                (IF Cardinality(unread) < feed.limit THEN Cardinality(unread) ELSE feed.limit)
          /\ shown \subseteq unread
          /\ \A r \in shown : \A q \in unread \ shown :
                (r.published_at # 0 /\ q.published_at # 0) => q.published_at <= r.published_at

Stored(article_id) == \E a \in articles : a.id = article_id

\* C13: one request at a time.  A call for a pair that is not stored yet goes
\* on to insert, and for a stored article it adds exactly one row and reports
\* it as recorded; a call for a stored pair returns "already recorded" and
\* leaves the table alone; no pair has two rows.
C13_MarkAsReadIdempotent ==
    [][\A r \in Readers :
          /\ (reader[r].pc = "idle" /\ reader'[r].pc # "idle") =>
                IF HistoryOf(read_history, reader'[r].user_id, reader'[r].article_id) # {}
                THEN /\ reader'[r].pc = "done"
                     /\ reader'[r].outcome = "already"
                     /\ read_history' = read_history
                ELSE reader'[r].pc = "insert"
          /\ (reader[r].pc = "insert" /\ reader'[r].pc = "done" /\ Stored(reader[r].article_id)) =>
                /\ reader'[r].outcome = "recorded"
                /\ Cardinality(read_history') = Cardinality(read_history) + 1
                /\ Cardinality(HistoryOf(read_history', reader[r].user_id,
                                         reader[r].article_id)) = 1
          /\ \A h \in read_history' :
                Cardinality(HistoryOf(read_history', h.user_id, h.article_id)) = 1]_vars

C13_Witness ==
    /\ reader["r1"].pc = "done"
    /\ reader["r1"].outcome = "already"
    /\ Stored(reader["r1"].article_id)
    /\ Cardinality(HistoryOf(read_history, reader["r1"].user_id, reader["r1"].article_id)) = 1

\* C14 (as claimed): two requests for the same pair, interleaved in any way,
\* leave at most one row of the pair, and neither ends in an error.
C14_RacingReadsNoError ==
    [][/\ \A h \in read_history' :
             Cardinality(HistoryOf(read_history', h.user_id, h.article_id)) = 1
       /\ \A r \in Readers :
             (reader[r].pc = "insert" /\ reader'[r].pc = "done" /\ Stored(reader[r].article_id))
                 => reader'[r].outcome # "error"]_vars

\* the words of title and summary, capitals folded
Folded(title, summary) == [i \in 1..Len(title \o summary) |-> (title \o summary)[i].w]

\* keyword k occurs in the lowercased text of title and summary
Occurs(k, title, summary) ==
    LET ws == Folded(title, summary)
    IN IF k = "iskusstvennyi intellekt"
       THEN \E i \in 1..(Len(ws) - 1) : ws[i] = "iskusstvennyi" /\ ws[i + 1] = "intellekt"
       ELSE \E i \in 1..Len(ws) : ws[i] = k \/ (k = "it" /\ ws[i] = "twitter")

\* C15: _categorize_article returns GENERAL exactly when no keyword of any
\* category occurs in the lowercased title and summary; so for two empty texts.
C15_GeneralIffNoKeyword ==
    classified.called =>
        /\ (classified.category = "GENERAL")
              <=> (\A k \in AllKeywords : ~Occurs(k, classified.title, classified.summary))
        /\ (classified.title = <<>> /\ classified.summary = <<>>)
              => classified.category = "GENERAL"

C15_Witness ==
    /\ classified.called
    /\ classified.title = <<>>
    /\ classified.summary = <<>>
    /\ classified.category = "GENERAL"

\* the score of a category: how many of its keywords occur in the text
ScoreOf(c, title, summary) ==
    IF c \in DOMAIN category_keywords
    THEN Cardinality({k \in category_keywords[c] : Occurs(k, title, summary)})
    ELSE 0

\* C16: _categorize_article returns the category of the highest score, among
\* several of that score the first in the order of the enumeration (GENERAL
\* when the highest score is 0); the result is a function of title and summary.
C16_HighestScoreFirstInOrder ==
    classified.called =>
        \E i \in 1..Len(ArticleCategory) :
            LET score(j) == ScoreOf(ArticleCategory[j], classified.title, classified.summary)
            IN /\ \A j \in 1..Len(ArticleCategory) : score(j) <= score(i)
               /\ \A j \in 1..(i - 1) : score(j) < score(i)
               /\ classified.category = IF score(i) > 0 THEN ArticleCategory[i] ELSE "GENERAL"

C16_Witness ==
    /\ classified.called
    /\ classified.category = "TECHNOLOGY"
    /\ ScoreOf("TECHNOLOGY", classified.title, classified.summary) = 1
    /\ ScoreOf("SPORTS", classified.title, classified.summary) = 1

\* C17 (as claimed): when create_user returns the new user, the store holds
\* for that user exactly one row per category of the enumeration, weight 0.5.
C17_DefaultPreferencePerCategory ==
    [][(signup.pc = "prefs" /\ signup'.outcome = "created") =>
          {r \in user_preferences' : r.user_id = signup.user_id}
              = {[user_id |-> signup.user_id, category |-> c, weight |-> 50] : c \in EnumNames}
      ]_vars

\* C18 (as claimed): whatever the interleaving, no (user, category) pair has
\* two rows and every weight is in [0,1]; update_user_preference on a stored
\* pair sets the weight of its row and adds no row, on a missing pair it adds
\* exactly one row.
C18_OneRowPerPairUpdateInPlace ==
    [][/\ \A r \in user_preferences' :
             /\ r.weight \in 0..100
             /\ Cardinality(PreferencesOf(user_preferences', r.user_id, r.category)) = 1
       /\ (updater.pc = "idle" /\ updater'.pc # "idle") => updater'.pc = "commit"
       /\ (updater.pc = "commit" /\ updater'.pc = "done") =>
             LET pair == PreferencesOf(user_preferences, updater.user_id,
                                       updater.preference.category)
                 new == [user_id |-> updater.user_id,
                         category |-> updater.preference.category,
                         weight |-> updater.preference.weight]
             IN IF pair # {}
                THEN updater.existing => user_preferences' = (user_preferences \ pair) \cup {new}
                ELSE user_preferences' = user_preferences \cup {new}
      ]_vars

\* C19 (as claimed): an entry without a link is dropped: no ingest stores an
\* article with an empty source_url, and such an entry is never counted.
C19_EntryWithoutLinkDropped ==
    [][/\ \A r \in articles' : Truthy(r.source_url)
       /\ \A p \in Workers :
             (ItemDone(p) /\ ~Truthy(CurrentItem(p).source_url)) =>
                 /\ articles' = articles
                 /\ proc'[p].saved_count = proc[p].saved_count]_vars

\* the fetched record the row r was made from, when worker p just stored r
FetchedFor(p) == CurrentItem(p)

IsPrefix(t, full, n) == t.id = full.id /\ t.len = (IF full.len < n THEN full.len ELSE n)

\* C20 (as claimed): every article an ingest stores has title <= 500, summary
\* <= 1000 and body <= 5000 characters, each the prefix of the fetched text,
\* and the record parse_feed returned is not cut.
C20_StoredWithinLimits ==
    [][\A p \in Workers :
          (ItemDone(p) /\ articles' # articles) =>
              \A r \in articles' \ articles :
                  /\ IsPrefix(r.title, FetchedFor(p).title, TitleLimit)
                  /\ IsPrefix(r.summary, FetchedFor(p).summary, SummaryLimit)
                  /\ IsPrefix(r.content, FetchedFor(p).content, ContentLimit)
                  /\ proc'[p].articles_data = proc[p].articles_data
                  /\ \E k \in 1..Len(proc[p].fetch.entries) :
                        /\ proc[p].fetch.entries[k].title = FetchedFor(p).title
                        /\ proc[p].fetch.entries[k].summary = FetchedFor(p).summary
                        /\ proc[p].fetch.entries[k].description = FetchedFor(p).content]_vars

\* ------------------------------------------- batches that repeat a link
\* the longest batch of the cycles below
MaxBatchLen == 3

\* Entries of one feed that come in pairs with the same link: the second of a
\* pair is a repost of the first under another title; one first entry has no
\* summary.
RepeatedEntries == {
    RawEntry(Txt("t1", 40), Txt("s1", 100), Txt("d1", 300), Txt("a", 20), 2, {"it"}),
    RawEntry(Txt("t5", 40), Txt("s5", 100), Txt("d5", 300), Txt("a", 20), 3, {"futbol"}),
    RawEntry(Txt("t3", 40), EmptyTxt, Txt("d3", 300), Txt("d", 25), 3, {"it", "futbol", "hokkei"}),
    RawEntry(Txt("t6", 40), Txt("s6", 100), Txt("d6", 300), Txt("d", 25), 1, {})
}

RepeatedResponses == [kind : {"ok"}, entries : SeqsUpTo(RepeatedEntries, MaxBatchLen)]

\* a call of either copy of the parser on a feed that may repeat a link
FetchRepeated(p) == Call(p, {"batch", "peritem"}, {1}, RepeatedResponses)

\* DELETE /api/articles/{article_id} arriving while no ingest cycle runs
DeleteBetweenCycles ==
    /\ proc["w1"].pc = "done"
    /\ ~proc["w1"].rerun
    /\ \E article_id \in {r.id : r \in articles} :
          articles' = delete_article(articles, article_id)
    /\ feed' = NoFeed
    /\ UNCHANGED <<proc, reader, classified, accounts, service, user_preferences, read_history>>

\* One worker running cycle after cycle on feeds that repeat links, an admin
\* deleting articles between two cycles.
NextCycles ==
    \/ FetchRepeated("w1")
    \/ Rerun("w1")
    \/ DeleteBetweenCycles
    \/ CheckExisting("w1")
    \/ LoopBatch("w1")
    \/ SelectItem("w1")
    \/ InsertItem("w1")
    \/ Return("w1")

SpecCycles == Init /\ [][NextCycles]_vars

\* the current item is the first of its batch with its link
FirstOfLink(p) ==
    \A j \in 1..(proc[p].i - 1) :
        proc[p].articles_data[j].source_url # CurrentItem(p).source_url

\* another entry of the batch has the link of the current item
SharesLink(p) ==
    \E j \in 1..Len(proc[p].articles_data) :
        /\ j # proc[p].i
        /\ proc[p].articles_data[j].source_url = CurrentItem(p).source_url

\* row r carries the fields of article_data dict item
CarriesFieldsOf(r, item) ==
    /\ r.source_url.id = item.source_url.id
    /\ r.title.id = item.title.id
    /\ r.summary.id = item.summary.id
    /\ r.content.id = item.content.id
    /\ r.category = item.category
    /\ r.published_at = item.published_at

\* C21 (as claimed): entries of one batch that share a link not yet stored
\* collapse to the first: the first entry with the link adds one row that
\* carries its fields and is counted once, every later entry with the link adds
\* nothing and is not counted, and the loop goes on to the next entry.
C21_DuplicatesCollapseToFirst ==
    [][\A p \in Workers :
          (ItemDone(p) /\ SharesLink(p)) =>
              LET item == CurrentItem(p)
              IN /\ (FirstOfLink(p) /\ item.source_url \notin StoredUrls(articles))
                        => /\ \E r \in articles' :
                                 /\ articles' = articles \cup {r}
                                 /\ r \notin articles
                                 /\ CarriesFieldsOf(r, item)
                           /\ proc'[p].saved_count = proc[p].saved_count + 1
                 /\ ~FirstOfLink(p)
                        => /\ articles' = articles
                           /\ proc'[p].saved_count = proc[p].saved_count
                 /\ proc'[p].pc = IF proc[p].i < Len(proc[p].articles_data)
                                  THEN "loop" ELSE "done"]_vars

\* worker p ends the iteration on its current item with this outcome
EndsWith(p, outcome) ==
    /\ ItemDone(p)
    /\ proc'[p].outcomes = Append(proc[p].outcomes, outcome)

\* C22: no dedup state survives between two cycles.  In the cycle that follows
\* another one on the same feed, an item is skipped only if its URL is in the
\* store now, and an item that was stored before (it has a summary) and whose
\* URL is no longer in the store is persisted again and counted.
C22_NoDedupStateAcrossCycles ==
    [][\A p \in Workers :
          (ItemDone(p) /\ proc[p].rerun) =>
              LET item == CurrentItem(p)
              IN /\ EndsWith(p, "skipped") => item.source_url \in StoredUrls(articles)
                 /\ (Truthy(item.summary) /\ item.source_url \notin StoredUrls(articles))
                        => /\ \E r \in articles' :
                                 /\ articles' = articles \cup {r}
                                 /\ r \notin articles
                                 /\ CarriesFieldsOf(r, item)
                           /\ proc'[p].saved_count = proc[p].saved_count + 1]_vars

\* the second cycle has ended: it persisted again the article that was deleted
\* after the first cycle and skipped the one that stayed
C22_Witness ==
    /\ proc["w1"].rerun
    /\ proc["w1"].pc = "done"
    /\ proc["w1"].variant = "batch"
    /\ proc["w1"].outcomes = <<"skipped", "saved">>
    /\ proc["w1"].saved_count = 1
    /\ Cardinality(articles) = 2

\* C23 (as claimed): the summary is optional.  An entry with a link, a URL not
\* yet stored and an empty or absent summary adds one row that has no summary
\* and one to the count, as an entry with a summary does.
C23_SummaryOptional ==
    [][\A p \in Workers :
          (/\ ItemDone(p)
           /\ Truthy(CurrentItem(p).source_url)
           /\ CurrentItem(p).source_url \notin StoredUrls(articles)
           /\ ~Truthy(CurrentItem(p).summary))
              => /\ \E r \in articles' :
                       /\ articles' = articles \cup {r}
                       /\ r \notin articles
                       /\ r.source_url.id = CurrentItem(p).source_url.id
                       /\ ~Truthy(r.summary)
                 /\ proc'[p].saved_count = proc[p].saved_count + 1]_vars

\* ------------------------------------------------- sources and the service
\* the largest id of a news source
MaxSources == 5

\* the ids the rows of RUSSIA_SOURCES get in an empty news_sources table
RUSSIA_SOURCES == 1..3

\* a NewsSource row: is_active is set by its column default only
SourceRow(id) == [id |-> id, is_active |-> TRUE]

NewSourceId(rows) == IF rows = {} THEN 1 ELSE Max({r.id : r \in rows}) + 1

\* crud.get_news_source: the row with the id, if there is one
get_news_source(rows, source_id) == {r \in rows : r.id = source_id}

\* lifespan up to its yield: create the tables, add RUSSIA_SOURCES when the
\* news_sources table is empty.  An exception while adding them is printed and
\* rolled back; any other exception is re-raised and the application does not
\* start.  Nothing else is started here: no task, no loop, no timer.
lifespan ==
    /\ lifecycle = "startup"
    /\ \/ /\ news_sources' = IF news_sources = {}
                             THEN {SourceRow(id) : id \in RUSSIA_SOURCES}
                             ELSE news_sources
          /\ lifecycle' = "running"
       \/ /\ news_sources = {}
          /\ news_sources' = news_sources
          /\ lifecycle' = "running"
       \/ /\ news_sources' = news_sources
          /\ lifecycle' = "stopped"
    /\ UNCHANGED <<articles, proc, user_preferences, read_history, feed, reader,
                   classified, accounts, sync>>

\* lifespan after its yield: engine.dispose()
Shutdown ==
    /\ lifecycle = "running"
    /\ lifecycle' = "stopped"
    /\ UNCHANGED <<articles, proc, user_preferences, read_history, feed, reader,
                   classified, accounts, news_sources, sync>>

\* start_app.py runs the server again on the database file it left
Restart ==
    /\ lifecycle = "stopped"
    /\ lifecycle' = "startup"
    /\ sync' = NoSync
    /\ UNCHANGED <<articles, proc, user_preferences, read_history, feed, reader,
                   classified, accounts, news_sources>>

\* POST /api/sources/ (admin): crud.create_news_source
create_source ==
    /\ lifecycle = "running"
    /\ NewSourceId(news_sources) <= MaxSources
    /\ news_sources' = news_sources \cup {SourceRow(NewSourceId(news_sources))}
    /\ UNCHANGED <<articles, proc, user_preferences, read_history, feed, reader,
                   classified, accounts, lifecycle, sync>>

\* POST /api/parser/sync/{source_id} (admin): 404 for an unknown id, else the
\* message that the parsing was added to the queue.  The handler never touches
\* its background_tasks argument and calls nothing of the parser.
sync_source ==
    /\ lifecycle = "running"
    /\ \E source_id \in 1..(MaxSources + 1) :
          sync' = [called |-> TRUE, source_id |-> source_id,
                   status |-> IF get_news_source(news_sources, source_id) = {}
                              THEN 404 ELSE 200,
                   background_tasks |-> {}]
    /\ UNCHANGED <<articles, proc, user_preferences, read_history, feed, reader,
                   classified, accounts, news_sources, lifecycle>>

\* The application from start to stop with its source and parser endpoints.
\* No action of main.py calls parse_and_save_articles, so none is here.
NextService ==
    \/ lifespan
    \/ Shutdown
    \/ Restart
    \/ create_source
    \/ sync_source

\* The server runs the startup part of lifespan to its end before it serves,
\* and a handler runs to its end; requests, shutdown and restart are not forced.
SpecService == Init /\ [][NextService]_vars /\ WF_vars(lifespan)

\* an ingest of the source is running
IngestRuns(source_id) ==
    \E p \in Workers : /\ proc[p].pc # "idle"
                       /\ proc[p].source_id = source_id

\* C24 (as claimed): while the application runs, every active source is
\* ingested cycle after cycle: whenever a source is active, an ingest of it
\* is invoked later on (or the application has stopped), whatever happened to
\* the ingest of the other sources.
C24_EveryActiveSourceRefreshed ==
    \A source_id \in 1..MaxSources :
        []((/\ lifecycle = "running"
            /\ \E r \in news_sources : r.id = source_id /\ r.is_active)
              => <>(lifecycle # "running" \/ IngestRuns(source_id)))

\* C25 (as claimed): a POST /api/parser/sync/{source_id} answered with the
\* message that the parsing was queued is followed, while the application
\* runs, by an ingest of that source; a request for an unknown id is answered
\* 404 and starts no ingest.
C25_SyncStartsIngest ==
    /\ \A source_id \in 1..MaxSources :
          []((/\ sync.called
              /\ sync.status = 200
              /\ sync.source_id = source_id)
                => <>(lifecycle # "running" \/ IngestRuns(source_id)))
    /\ [][(sync' # sync /\ sync'.called
              /\ get_news_source(news_sources, sync'.source_id) = {})
             => /\ sync'.status = 404
                /\ proc' = proc]_vars

\* an exception is raised inside get_personalized_feed for this user: a stored
\* preference (pref.source_id, or a category the Enum column cannot load) or a
\* read-history row joined with its article (h.article_id on a dict)
RaisesInside(user_id) ==
    \/ \E r \in user_preferences : r.user_id = user_id
    \/ \E h \in read_history : h.user_id = user_id /\ Stored(h.article_id)

\* C26: get_personalized_feed never raises to its caller: whenever an
\* exception is raised inside it the call returns the empty list, and no call
\* changes the article, preference or read-history table.
C26_FeedNeverRaises ==
    [][(feed'.called /\ feed' # feed) =>
          /\ ~feed'.raised
          /\ RaisesInside(feed'.user_id) => (feed'.result = <<>> /\ feed'.caught)
          /\ articles' = articles
          /\ user_preferences' = user_preferences
          /\ read_history' = read_history]_vars

\* a call returned [] because of an exception, not for want of articles: the
\* user has a preference and a read article, and unread articles are stored
C26_Witness ==
    /\ feed.called
    /\ feed.caught
    /\ feed.result = <<>>
    /\ ~feed.raised
    /\ UnreadOf(feed.user_id) # {}
    /\ \E r \in user_preferences : r.user_id = feed.user_id
    /\ \E h \in read_history : h.user_id = feed.user_id /\ Stored(h.article_id)

\* C27 (as claimed): create_user is all-or-nothing.  A call that ended with an
\* error left neither the user row nor a preference row of that user, and
\* outside a running call every stored user has a row per default category.
C27_CreateUserAllOrNothing ==
    /\ signup.outcome = "error"
          => /\ signup.user_id \notin users
             /\ \A r \in user_preferences : r.user_id # signup.user_id
    /\ signup.pc # "prefs"
          => \A user_id \in users :
                Cardinality({r \in user_preferences : r.user_id = user_id})
                    >= Len(CategoryValues)

============================================================================
